---- MODULE Spec2Model ----
(***************************************************************************)
(* django_etesync/serializers.py: the write paths of the item serializer   *)
(* (CollectionItemSerializer.create / .update), of the collection          *)
(* serializer (CollectionSerializer.create / .update / get_ctag) and the   *)
(* revision builder process_revisions_for_item, run by concurrent requests *)
(* against one database; and the codec at the boundary (b64encode,         *)
(* b64decode, ChunksField.to_internal_value).                              *)
(*                                                                         *)
(* The database is modelled at statement granularity: each request runs    *)
(* its statements inside `with transaction.atomic()`; rows it writes are   *)
(* pending (private to the request) until the block exits, then they are   *)
(* committed together or dropped together.  Readers outside a transaction  *)
(* see the committed tables only (READ COMMITTED).  Row locks (SELECT ...  *)
(* FOR UPDATE, UPDATE) and unique-index waits block a statement until the  *)
(* transaction that holds the row ends.  Primary keys come from sequences, *)
(* which are not transactional.  The blob store (FileField storage) is     *)
(* outside the transaction: a file once written stays.                     *)
(*                                                                         *)
(* The model classes are taken from the design document: the chunk uid is  *)
(* unique, at most one revision per item has current = true, and a         *)
(* revision that is created without an explicit flag is current.           *)
(***************************************************************************)
EXTENDS Naturals, Integers, Sequences, FiniteSets, TLC

\* Python's None for a row reference; primary keys start at 1.
None == 0

\* Python's None for a field that holds text or bytes.
Null == "None"

\* ---- bounds ----
MaxCalls == 3
MaxChunks == 2
MaxCollectionChunks == 1
Workers == 2

Calls == 1..MaxCalls

\* ---- request payloads ----
ChunkUids == {"X", "Y"}

\* One element of validated 'chunks_relation': (uid,) or (uid, content).
ChunkElems ==
    {<<u>> : u \in ChunkUids} \cup {<<"X", "B1">>, <<"X", "B2">>, <<"Y", "B1">>}

\* The remaining revision fields of the payload: uid, meta, deleted.  Request
\* c sends a revision uid of its own.
RevisionData(c) == {[uid |-> <<"r", c>>, meta |-> "m1", deleted |-> FALSE]}

\* The item fields of the payload: uid, version, encryptionKey.
ItemData == {[uid |-> "i1", version |-> 1, encryptionKey |-> "k1"]}

\* The item fields of the payload of an update: values no stored item has.
ItemUpdateData == {[uid |-> "i9", version |-> 9, encryptionKey |-> "k9"]}

\* The collection fields of the payload: uid, version.
CollectionData == {[uid |-> "c1", version |-> 2]}

\* The collection fields of the payload of an update: values no stored
\* collection has.
CollectionUpdateData == {[uid |-> "c9", version |-> 9]}

\* validated_data.get('owner'): the user the view passes, or None when it
\* passes none.
Owners == {"u1", Null}

\* The encryptionKey of the payload of a collection, decoded.  Request c sends
\* a key of its own.
OwnerKeys(c) == {<<"ek", c>>}

\* models.CollectionMember.AccessLevels.ADMIN
ADMIN == "adm"

VARIABLES
    items,        \* committed CollectionItem rows
    revisions,    \* committed CollectionItemRevision rows
    chunks,       \* committed CollectionItemChunk rows
    relations,    \* committed RevisionChunkRelation rows
    blobs,        \* the blob store: files written, in order; chunkFile indexes it
    seqs,         \* primary-key sequences of the four tables
    tx,           \* per request: position, payload, locals, pending writes
    commitOrder,  \* the requests that committed, in commit order
    collections,  \* committed Collection rows
    members,      \* committed CollectionMember rows
    codec         \* a value at the boundary: the input and what the codec made of it

vars == <<items, revisions, chunks, relations, blobs, seqs, tx, commitOrder,
          collections, members, codec>>

\* A request that has not arrived.
Idle ==
    [pc |-> "idle", op |-> "none", item |-> None, revision_data |-> <<>>, chunks |-> <<>>,
     current_revision |-> None, wait |-> None, lock |-> None, chunks_objs |-> <<>>,
     file |-> None, pItems |-> {}, pRevs |-> {}, pChunks |-> {}, pRels |-> {},
     pDemoted |-> {}, result |-> "", at |-> "", rev |-> None,
     waited |-> FALSE, startCur |-> None,
     validated_data |-> <<>>, encryption_key |-> Null, owner |-> Null, coll |-> None,
     pColls |-> {}, pMembers |-> {}]

\* What is kept of a request once it has returned or raised: the operation,
\* its item, the chunk list as far as it was read, the outcome and where it
\* was raised, the revision it built.
Finished(t, res, rev) ==
    [Idle EXCEPT !.pc = "done", !.op = t.op, !.item = t.item, !.chunks = t.chunks,
                 !.result = res,
                 !.at = IF res = "ok" THEN "" ELSE t.pc, !.rev = rev,
                 !.waited = t.waited, !.startCur = t.startCur,
                 !.validated_data = t.validated_data, !.coll = t.coll,
                 !.encryption_key = t.encryption_key, !.owner = t.owner]

Running(c) == tx[c].pc \notin {"idle", "done"}

\* ---- queries ----
\* instance.revisions.filter(current=True) on the committed table.
CurrentRevs(i) == {r \in revisions : r.item = i /\ r.current}

CommittedCurrent(i) ==
    IF CurrentRevs(i) = {} THEN None ELSE (CHOOSE r \in CurrentRevs(i) : TRUE).id

Row(id) == CHOOSE r \in revisions : r.id = id

\* Requests other than c that hold the row lock of revision id.
LockHolders(c, id) == {o \in Calls \ {c} : Running(o) /\ tx[o].lock = id}

\* Chunk rows request c can read: committed rows and its own pending rows.
VisibleChunks(c) == chunks \cup tx[c].pChunks

\* The chunk uid is unique: a row of this uid that request c can read.
ChunkUidTaken(c, uid) == \E k \in VisibleChunks(c) : k.uid = uid

\* Other requests with an uncommitted chunk row of this uid.
PendingChunkOwners(c, uid) ==
    {o \in Calls \ {c} : Running(o) /\ \E k \in tx[o].pChunks : k.uid = uid}

\* Revision rows request c can read: committed rows with its own pending
\* demotions applied, and its own pending inserts.
VisibleRevs(c) ==
    {IF r.id \in tx[c].pDemoted THEN [r EXCEPT !.current = FALSE] ELSE r : r \in revisions}
        \cup tx[c].pRevs

\* The rows instance.revisions.filter(current=True) finds for request c.
CurrentOf(c) == {r \in VisibleRevs(c) : r.item = tx[c].item /\ r.current}

\* (item, current = true) is unique: a row that already holds it for c's item
\* and that no other transaction is changing.
CurrentTaken(c) ==
    \E r \in CurrentOf(c) : \A o \in Calls \ {c} : r.id \notin tx[o].pDemoted

\* ---- waits ----
\* The requests whose transaction must end before c's next statement can run:
\* the holders of the row lock it needs, the writers of an uncommitted chunk
\* row of the uid it inserts, the writers of an uncommitted current revision
\* of its item.
Blockers(c) ==
    LET t == tx[c] IN
    CASE t.pc = "wait" -> LockHolders(c, t.wait)
      [] t.pc = "demote" /\ t.current_revision # None -> LockHolders(c, t.current_revision)
      [] t.pc = "chunk_insert" ->
            IF ChunkUidTaken(c, t.chunks[Len(t.chunks)][1])
            THEN {} ELSE PendingChunkOwners(c, t.chunks[Len(t.chunks)][1])
      [] t.pc = "chunks" ->
            IF CurrentTaken(c)
            THEN {}
            ELSE {o \in Calls \ {c} : Running(o) /\
                    ( (\E r \in tx[o].pRevs : r.item = t.item /\ r.current)
                      \/ (\E r \in revisions : r.item = t.item /\ r.current
                                                 /\ r.id \in tx[o].pDemoted) )}
      [] OTHER -> {}

RECURSIVE WaitClosure(_, _)
WaitClosure(S, n) ==
    IF n = 0 THEN S ELSE WaitClosure(S \cup UNION {Blockers(o) : o \in S}, n - 1)

\* c waits, directly or through others, for itself.
Deadlocked(c) == c \in WaitClosure(Blockers(c), MaxCalls)

\* ---- initial state ----
\* An empty database, or one that already holds an item row without any
\* revision (a CollectionItem saved on its own).
BareItem ==
    [id |-> 1, uid |-> "i0", version |-> 1, encryptionKey |-> "k0", collection |-> None]

\* No value is at the boundary.
CodecIdle == [pc |-> "idle", data |-> <<>>, out |-> <<>>]

Init ==
    /\ items \in {{}, {BareItem}}
    /\ revisions = {}
    /\ chunks = {}
    /\ relations = {}
    /\ blobs = <<>>
    /\ seqs = [item |-> Cardinality(items) + 1, rev |-> 1, chunk |-> 1, rel |-> 1,
               coll |-> 1, member |-> 1]
    /\ tx = [c \in Calls |-> Idle]
    /\ commitOrder = <<>>
    /\ collections = {}
    /\ members = {}
    /\ codec = CodecIdle

\* ---- leaving the atomic block ----
\* Variant: the statements are not inside an atomic block, so what the
\* request has written so far stays when the exception is raised.
AbortKeepsWrites(c, t, err) ==
    /\ tx' = [tx EXCEPT ![c] = Finished(t, err, None)]
    /\ items' = items \cup t.pItems
    /\ revisions' =
          {IF r.id \in t.pDemoted THEN [r EXCEPT !.current = FALSE] ELSE r : r \in revisions}
              \cup t.pRevs
    /\ chunks' = chunks \cup t.pChunks
    /\ relations' = relations \cup t.pRels
    /\ collections' = collections \cup t.pColls
    /\ members' = members \cup t.pMembers
    /\ UNCHANGED <<commitOrder, codec>>

\* An exception leaves `with transaction.atomic()`: every pending row of the
\* request is dropped, its locks are released, the caller gets the exception.
Abort(c, t, err) ==
    /\ tx' = [tx EXCEPT ![c] = Finished(t, err, None)]
    /\ UNCHANGED <<items, revisions, chunks, relations, collections, members, codec, commitOrder>>

\* The block ends normally: the pending rows become visible together.
Commit(c) ==
    /\ tx[c].pc = "commit"
    /\ items' = items \cup tx[c].pItems
    /\ revisions' =
          {IF r.id \in tx[c].pDemoted THEN [r EXCEPT !.current = FALSE] ELSE r : r \in revisions}
              \cup tx[c].pRevs
    /\ chunks' = chunks \cup tx[c].pChunks
    /\ relations' = relations \cup tx[c].pRels
    /\ collections' = collections \cup tx[c].pColls
    /\ members' = members \cup tx[c].pMembers
    /\ commitOrder' = Append(commitOrder, c)
    /\ tx' = [tx EXCEPT ![c] = Finished(tx[c], "ok", tx[c].rev)]
    /\ UNCHANGED <<blobs, seqs, codec>>

\* Variant: the database does not look for wait cycles.
NoDeadlockAbort(c) ==
    /\ FALSE
    /\ Abort(c, tx[c], "OperationalError")
    /\ UNCHANGED <<blobs, seqs>>

\* The database breaks a wait cycle by cancelling one of its transactions.
DeadlockAbort(c) ==
    /\ Running(c)
    /\ Deadlocked(c)
    /\ Abort(c, tx[c], "OperationalError")
    /\ UNCHANGED <<blobs, seqs>>

\* ---- requests arrive ----
\* Requests arrive one after the other, and at most Workers of them run at once.
Arrives(c) ==
    /\ tx[c].pc = "idle"
    /\ IF c = 1 THEN TRUE ELSE tx[c - 1].pc # "idle"
    /\ Cardinality({o \in Calls : Running(o)}) < Workers

\* ---- CollectionItemSerializer.create ----
\* The serializer is called with validated data: revision_data is popped, the
\* instance is built from the item fields and from what the caller adds to
\* them (the collection of the item, when it has one), and instance.save()
\* inserts the item row inside the atomic block.
Create(c) ==
    /\ Arrives(c)
    /\ \E idata \in ItemData, rdata \in RevisionData(c),
          k \in {None} \cup {q.id : q \in collections} :
          tx' = [tx EXCEPT ![c] =
                    [Idle EXCEPT !.pc = "chunks", !.op = "create", !.revision_data = rdata,
                                 !.item = seqs.item,
                                 !.pItems = {[id |-> seqs.item, uid |-> idata.uid,
                                              version |-> idata.version,
                                              encryptionKey |-> idata.encryptionKey,
                                              collection |-> k]}]]
    /\ seqs' = [seqs EXCEPT !.item = @ + 1]
    /\ UNCHANGED <<items, revisions, chunks, relations, collections, members, codec, blobs, commitOrder>>

\* ---- CollectionItemSerializer.update ----
\* .first(): the row with the least primary key, or None.
First(rows) ==
    IF rows = {} THEN None
    ELSE (CHOOSE r \in rows : \A q \in rows : r.id <= q.id).id

\* filter(current=True).select_for_update().first() by request t on item i:
\* the row found is locked and returned; when another transaction holds it,
\* the statement waits.
Selected(c, t, i) ==
    LET found == First({r \in revisions : r.item = i /\ r.current}) IN
    IF found = None
      THEN [t EXCEPT !.pc = "demote", !.current_revision = None]
    ELSE IF LockHolders(c, found) = {}
      THEN [t EXCEPT !.pc = "demote", !.current_revision = found, !.lock = found]
    ELSE [t EXCEPT !.pc = "wait", !.wait = found, !.waited = TRUE]

\* Variant: the fields left in validated_data are set on the instance and
\* the instance is saved, as ModelSerializer.update does.
UpdateAppliesFields(c) ==
    /\ Arrives(c)
    /\ \E i \in items, rdata \in RevisionData(c), idata \in ItemUpdateData :
          tx' = [tx EXCEPT ![c] =
                    Selected(c, [Idle EXCEPT !.op = "update", !.item = i.id, !.revision_data = rdata,
                                             !.validated_data = idata,
                                             !.pItems = {[i EXCEPT !.uid = idata.uid,
                                                                   !.version = idata.version,
                                                                   !.encryptionKey = idata.encryptionKey]},
                                             !.startCur = CommittedCurrent(i.id)], i.id)]
    /\ UNCHANGED <<items, revisions, chunks, relations, collections, members, codec, blobs, seqs, commitOrder>>

\* The serializer is called with an item of the database and validated data,
\* enters the atomic block and reads the current revision.  What is left of
\* validated_data after the pop (uid, version, encryptionKey) is not used.
Update(c) ==
    /\ Arrives(c)
    /\ \E i \in items, rdata \in RevisionData(c), idata \in ItemUpdateData :
          tx' = [tx EXCEPT ![c] =
                    Selected(c, [Idle EXCEPT !.op = "update", !.item = i.id, !.revision_data = rdata,
                                             !.validated_data = idata,
                                             !.startCur = CommittedCurrent(i.id)], i.id)]
    /\ UNCHANGED <<items, revisions, chunks, relations, collections, members, codec, blobs, seqs, commitOrder>>

\* The holder has ended, and the database re-checks the row the statement
\* waited for against the filter: it is returned if it still has current =
\* true, and dropped from the result otherwise; rows inserted since the
\* statement began are not seen (PostgreSQL, READ COMMITTED).
SelectRecheck(c) ==
    /\ tx[c].pc = "wait"
    /\ LockHolders(c, tx[c].wait) = {}
    /\ tx' = IF Row(tx[c].wait).current
                THEN [tx EXCEPT ![c].pc = "demote", ![c].current_revision = tx[c].wait,
                                ![c].lock = tx[c].wait, ![c].wait = None]
                ELSE [tx EXCEPT ![c].pc = "demote", ![c].current_revision = None, ![c].wait = None]
    /\ UNCHANGED <<items, revisions, chunks, relations, collections, members, codec, blobs, seqs, commitOrder>>

\* The holder has ended, and the locking read reads the latest committed rows
\* (MySQL/InnoDB): the query is evaluated again on the state as it is now.
SelectReread(c) ==
    /\ tx[c].pc = "wait"
    /\ LockHolders(c, tx[c].wait) = {}
    /\ tx' = [tx EXCEPT ![c] = Selected(c, [tx[c] EXCEPT !.wait = None], tx[c].item)]
    /\ UNCHANGED <<items, revisions, chunks, relations, collections, members, codec, blobs, seqs, commitOrder>>

\* Variant: the demotion is saved outside the atomic block and is visible at
\* once.
DemoteAutocommit(c) ==
    /\ tx[c].pc = "demote"
    /\ IF tx[c].current_revision = None
         THEN Abort(c, tx[c], "AttributeError")
         ELSE /\ LockHolders(c, tx[c].current_revision) = {}
              /\ revisions' = {IF r.id = tx[c].current_revision THEN [r EXCEPT !.current = FALSE] ELSE r :
                                  r \in revisions}
              /\ tx' = [tx EXCEPT ![c].pc = "chunks", ![c].lock = None]
              /\ UNCHANGED <<items, chunks, relations, collections, members, codec, commitOrder>>
    /\ UNCHANGED <<blobs, seqs>>

\* Variant: the demotion is skipped when no current revision was found, and
\* the revision is built all the same.
DemoteSkipsNone(c) ==
    /\ tx[c].pc = "demote"
    /\ tx[c].current_revision # None => LockHolders(c, tx[c].current_revision) = {}
    /\ tx' = [tx EXCEPT ![c].pc = "chunks", ![c].lock = tx[c].current_revision,
                         ![c].pDemoted = @ \cup ({tx[c].current_revision} \ {None})]
    /\ UNCHANGED <<items, revisions, chunks, relations, collections, members, codec, commitOrder, blobs, seqs>>

\* Variant: the demotion is an update of every current revision, not of the
\* row that was read.
DemoteEvery(c) ==
    /\ tx[c].pc = "demote"
    /\ IF tx[c].current_revision = None
         THEN Abort(c, tx[c], "AttributeError")
         ELSE /\ LockHolders(c, tx[c].current_revision) = {}
              /\ tx' = [tx EXCEPT ![c].pc = "chunks", ![c].lock = tx[c].current_revision,
                                   ![c].pDemoted = @ \cup {r.id : r \in CurrentOf(c)}
                                                     \cup {r.id : r \in {q \in revisions : q.current}}]
              /\ UNCHANGED <<items, revisions, chunks, relations, collections, members, codec, commitOrder>>
    /\ UNCHANGED <<blobs, seqs>>

\* current_revision.current = None; current_revision.save().  On None the
\* attribute assignment raises AttributeError.  The UPDATE takes the row lock.
Demote(c) ==
    /\ tx[c].pc = "demote"
    /\ IF tx[c].current_revision = None
         THEN Abort(c, tx[c], "AttributeError")
         ELSE /\ LockHolders(c, tx[c].current_revision) = {}
              /\ tx' = [tx EXCEPT ![c].pc = "chunks", ![c].lock = tx[c].current_revision,
                                   ![c].pDemoted = @ \cup {tx[c].current_revision}]
              /\ UNCHANGED <<items, revisions, chunks, relations, collections, members, codec, commitOrder>>
    /\ UNCHANGED <<blobs, seqs>>

\* ---- process_revisions_for_item ----
\* The chunk list of the payload is read as the loop goes: tx[c].chunks holds
\* the elements taken so far, the next element is any of ChunkElems, and the
\* list ends at any length up to MaxChunks (MaxCollectionChunks for the
\* content of a collection).
Elem(c) == tx[c].chunks[Len(tx[c].chunks)]

InLoop(c) ==
    /\ tx[c].pc = "chunks"
    /\ Len(tx[c].chunks) <
          IF tx[c].op \in {"ccreate", "cupdate"} THEN MaxCollectionChunks ELSE MaxChunks

\* The chunk row request t inserts for the element it is at, file f.
Inserted(t, c, id) ==
    [t EXCEPT !.pc = "chunks", !.file = None, !.chunks_objs = Append(@, id),
              !.pChunks = @ \cup {[id |-> id, uid |-> t.chunks[Len(t.chunks)][1],
                                    item |-> t.item, chunkFile |-> t.file, by |-> c]}]

\* Variant: an inline element whose uid exists is accepted and resolved to
\* the existing row (get_or_create).
ChunkCreateAccepts(c) ==
    /\ InLoop(c)
    /\ \E chunk \in ChunkElems :
          /\ Len(chunk) > 1
          /\ blobs' = Append(blobs, chunk[2])
          /\ LET t == [tx[c] EXCEPT !.chunks = Append(@, chunk), !.file = Len(blobs) + 1]
                  old == {k \in VisibleChunks(c) : k.uid = chunk[1]} IN
               IF old # {}
                 THEN /\ tx' = [tx EXCEPT ![c] =
                                   [t EXCEPT !.file = None,
                                             !.chunks_objs = Append(@, (CHOOSE k \in old : TRUE).id)]]
                      /\ UNCHANGED <<seqs, items, revisions, chunks, relations, collections, members, codec, commitOrder>>
               ELSE IF PendingChunkOwners(c, chunk[1]) # {}
                 THEN /\ tx' = [tx EXCEPT ![c] = [t EXCEPT !.pc = "chunk_insert"]]
                      /\ UNCHANGED <<seqs, items, revisions, chunks, relations, collections, members, codec, commitOrder>>
               ELSE /\ tx' = [tx EXCEPT ![c] = Inserted(t, c, seqs.chunk)]
                    /\ seqs' = [seqs EXCEPT !.chunk = @ + 1]
                    /\ UNCHANGED <<items, revisions, chunks, relations, collections, members, codec, commitOrder>>

\* len(chunk) > 1: chunk.chunkFile.save('IGNORED', ContentFile(content))
\* writes the file to the storage, under a name not yet in use, and then saves
\* the model, which inserts the chunk row (chunk.save() after it writes the
\* same row again).  The uid is unique: a committed or own row of that uid
\* raises IntegrityError, an uncommitted row of another transaction makes the
\* insert wait.
ChunkCreate(c) ==
    /\ InLoop(c)
    /\ \E chunk \in ChunkElems :
          /\ Len(chunk) > 1
          /\ blobs' = Append(blobs, chunk[2])
          /\ LET t == [tx[c] EXCEPT !.chunks = Append(@, chunk), !.file = Len(blobs) + 1] IN
               IF ChunkUidTaken(c, chunk[1])
                 THEN /\ Abort(c, t, "IntegrityError")
                      /\ UNCHANGED seqs
               ELSE IF PendingChunkOwners(c, chunk[1]) # {}
                 THEN /\ tx' = [tx EXCEPT ![c] = [t EXCEPT !.pc = "chunk_insert"]]
                      /\ UNCHANGED <<seqs, items, revisions, chunks, relations, collections, members, codec, commitOrder>>
               ELSE /\ tx' = [tx EXCEPT ![c] = Inserted(t, c, seqs.chunk)]
                    /\ seqs' = [seqs EXCEPT !.chunk = @ + 1]
                    /\ UNCHANGED <<items, revisions, chunks, relations, collections, members, codec, commitOrder>>

\* Variant: the insert that waited does not look again for a row of its uid.
ChunkInsertNoRecheck(c) ==
    /\ tx[c].pc = "chunk_insert"
    /\ PendingChunkOwners(c, Elem(c)[1]) = {}
    /\ tx' = [tx EXCEPT ![c] = Inserted(tx[c], c, seqs.chunk)]
    /\ seqs' = [seqs EXCEPT !.chunk = @ + 1]
    /\ UNCHANGED <<items, revisions, chunks, relations, collections, members, codec, commitOrder, blobs>>

\* The insert that waited goes on when the other transaction has ended.
ChunkInsert(c) ==
    /\ tx[c].pc = "chunk_insert"
    /\ IF ChunkUidTaken(c, Elem(c)[1])
         THEN /\ Abort(c, tx[c], "IntegrityError")
              /\ UNCHANGED seqs
         ELSE /\ PendingChunkOwners(c, Elem(c)[1]) = {}
              /\ tx' = [tx EXCEPT ![c] = Inserted(tx[c], c, seqs.chunk)]
              /\ seqs' = [seqs EXCEPT !.chunk = @ + 1]
              /\ UNCHANGED <<items, revisions, chunks, relations, collections, members, codec, commitOrder>>
    /\ UNCHANGED blobs

\* What follows a lookup by request c (t: c with the element taken) that
\* found the rows `found`: no row raises DoesNotExist, more than one raises
\* MultipleObjectsReturned, and the one row is appended to chunks_objs.
Got(c, t, found) ==
    IF found = {} THEN Abort(c, t, "DoesNotExist")
    ELSE IF Cardinality(found) > 1 THEN Abort(c, t, "MultipleObjectsReturned")
    ELSE /\ tx' = [tx EXCEPT ![c] = [t EXCEPT !.chunks_objs = Append(@, (CHOOSE k \in found : TRUE).id)]]
         /\ UNCHANGED <<items, revisions, chunks, relations, collections, members, codec, commitOrder>>

\* Variant: the lookup does not filter by uid and takes the oldest chunk row.
ChunkGetFirst(c) ==
    /\ InLoop(c)
    /\ \E chunk \in ChunkElems :
          /\ Len(chunk) = 1
          /\ Got(c, [tx[c] EXCEPT !.chunks = Append(@, chunk)],
                 {k \in VisibleChunks(c) : \A q \in VisibleChunks(c) : k.id <= q.id})
    /\ UNCHANGED <<blobs, seqs>>

\* Variant: a reference whose uid has no row is skipped.
ChunkGetSkipsMissing(c) ==
    /\ InLoop(c)
    /\ \E chunk \in ChunkElems :
          /\ Len(chunk) = 1
          /\ LET found == {k \in VisibleChunks(c) : k.uid = chunk[1]}
                  t == [tx[c] EXCEPT !.chunks = Append(@, chunk)] IN
               IF found = {}
                 THEN /\ tx' = [tx EXCEPT ![c] = t]
                      /\ UNCHANGED <<items, revisions, chunks, relations, collections, members, codec, commitOrder>>
                 ELSE Got(c, t, found)
    /\ UNCHANGED <<blobs, seqs>>

\* else: chunk = CollectionItemChunk.objects.get(uid=uid);
\* chunks_objs.append(chunk).
ChunkGet(c) ==
    /\ InLoop(c)
    /\ \E chunk \in ChunkElems :
          /\ Len(chunk) = 1
          /\ Got(c, [tx[c] EXCEPT !.chunks = Append(@, chunk)],
                 {k \in VisibleChunks(c) : k.uid = chunk[1]})
    /\ UNCHANGED <<blobs, seqs>>

\* The value of `current` of a revision created without one.
DefaultCurrent == TRUE

\* Variant: the relation rows are made from the last chunk to the first.
RelationRowsReversed(chunks_objs, rid, first) ==
    {[id |-> first + j - 1, chunk |-> chunks_objs[Len(chunks_objs) - j + 1], revision |-> rid] :
        j \in 1..Len(chunks_objs)}

\* The rows RevisionChunkRelation.objects.create makes, one per element of
\* chunks_objs, in its order.
RelationRows(chunks_objs, rid, first) ==
    {[id |-> first + j - 1, chunk |-> chunks_objs[j], revision |-> rid] :
        j \in 1..Len(chunks_objs)}

\* CollectionItemRevision.objects.create(**revision_data, item=item), then one
\* relation row per chunk; `current` is the flag the new row gets.  (item,
\* current = true) is unique: a row that holds it raises IntegrityError, a row
\* another transaction is writing makes the insert wait.
BuildRevision(c, current) ==
    /\ tx[c].pc = "chunks"
    /\ IF current /\ CurrentTaken(c)
         THEN /\ Abort(c, tx[c], "IntegrityError")
              /\ UNCHANGED seqs
         ELSE /\ current => Blockers(c) = {}
              /\ tx' = [tx EXCEPT ![c].pc = IF tx[c].op = "ccreate" THEN "member" ELSE "commit",
                                   ![c].rev = seqs.rev,
                                   ![c].pRevs = @ \cup {[id |-> seqs.rev,
                                                          item |-> tx[c].item,
                                                          uid |-> tx[c].revision_data.uid,
                                                          meta |-> tx[c].revision_data.meta,
                                                          deleted |-> tx[c].revision_data.deleted,
                                                          current |-> current,
                                                          by |-> c]},
                                   ![c].pRels = RelationRows(tx[c].chunks_objs, seqs.rev, seqs.rel)]
              /\ seqs' = [seqs EXCEPT !.rev = @ + 1, !.rel = @ + Len(tx[c].chunks_objs)]
              /\ UNCHANGED <<items, revisions, chunks, relations, collections, members, codec, commitOrder>>
    /\ UNCHANGED blobs

\* Variant: the new revision is created with current = None.
CreateRevisionNotCurrent(c) == BuildRevision(c, FALSE)

\* The chunk list has ended; revision_data carries no `current`, so the new
\* row gets the default of the field.
CreateRevision(c) == BuildRevision(c, DefaultCurrent)

\* ---- CollectionSerializer.create ----
\* Variant: the first instance.save() runs before the atomic block is
\* entered, so the collection row is visible at once.
CollectionCreateEarlySave(c) ==
    /\ Arrives(c)
    /\ \E cdata \in CollectionData, rdata \in RevisionData(c), key \in OwnerKeys(c) :
          /\ tx' = [tx EXCEPT ![c] =
                       [Idle EXCEPT !.pc = "chunks", !.op = "ccreate", !.revision_data = rdata,
                                    !.validated_data = cdata, !.encryption_key = key,
                                    !.coll = seqs.coll, !.item = seqs.item,
                                    !.pItems = {[id |-> seqs.item, uid |-> Null,
                                                 version |-> cdata.version,
                                                 encryptionKey |-> Null,
                                                 collection |-> seqs.coll]}]]
          /\ collections' = collections \cup {[id |-> seqs.coll, uid |-> cdata.uid,
                                                version |-> cdata.version, mainItem |-> None]}
    /\ seqs' = [seqs EXCEPT !.coll = @ + 1, !.item = @ + 1]
    /\ UNCHANGED <<items, revisions, chunks, relations, members, codec, blobs, commitOrder>>

\* content and encryptionKey are popped, the instance is built from the
\* collection fields; inside the atomic block instance.save() inserts the
\* collection row, CollectionItem.objects.create inserts the main item (uid
\* None, encryptionKey None, the version of the collection), and the instance
\* in memory is given the main item.
CollectionCreate(c) ==
    /\ Arrives(c)
    /\ \E cdata \in CollectionData, rdata \in RevisionData(c), key \in OwnerKeys(c) :
          tx' = [tx EXCEPT ![c] =
                    [Idle EXCEPT !.pc = "chunks", !.op = "ccreate", !.revision_data = rdata,
                                 !.validated_data = cdata, !.encryption_key = key,
                                 !.coll = seqs.coll, !.item = seqs.item,
                                 !.pColls = {[id |-> seqs.coll, uid |-> cdata.uid,
                                              version |-> cdata.version, mainItem |-> None]},
                                 !.pItems = {[id |-> seqs.item, uid |-> Null,
                                              version |-> cdata.version,
                                              encryptionKey |-> Null,
                                              collection |-> seqs.coll]}]]
    /\ seqs' = [seqs EXCEPT !.coll = @ + 1, !.item = @ + 1]
    /\ UNCHANGED <<items, revisions, chunks, relations, collections, members, codec, blobs, commitOrder>>

\* A member row needs a user: saving one without raises IntegrityError.
MemberUserMissing(owner) == owner = Null

\* Variant: the second instance.save() is left out, and the collection row
\* keeps the main item it was inserted with.
SaveMemberOnly(c) ==
    /\ tx[c].pc = "member"
    /\ \E owner \in Owners :
          IF MemberUserMissing(owner)
            THEN /\ Abort(c, tx[c], "IntegrityError")
                 /\ UNCHANGED seqs
            ELSE /\ tx' = [tx EXCEPT ![c].pc = "commit", ![c].owner = owner,
                                     ![c].pMembers =
                                        {[id |-> seqs.member, collection |-> tx[c].coll,
                                          user |-> owner, accessLevel |-> ADMIN,
                                          encryptionKey |-> tx[c].encryption_key]}]
                 /\ seqs' = [seqs EXCEPT !.member = @ + 1]
                 /\ UNCHANGED <<items, revisions, chunks, relations, collections, members, codec, commitOrder>>
    /\ UNCHANGED blobs

\* process_revisions_for_item has returned: instance.save() writes the main
\* item into the collection row, and the member row of the owner is saved
\* with accessLevel ADMIN and the key of the payload.
SaveMember(c) ==
    /\ tx[c].pc = "member"
    /\ \E owner \in Owners :
          LET t == [tx[c] EXCEPT !.pColls = {[k EXCEPT !.mainItem = tx[c].item] : k \in @},
                                 !.owner = owner] IN
          IF MemberUserMissing(owner)
            THEN /\ Abort(c, t, "IntegrityError")
                 /\ UNCHANGED seqs
            ELSE /\ tx' = [tx EXCEPT ![c] =
                              [t EXCEPT !.pc = "commit",
                                        !.pMembers =
                                           {[id |-> seqs.member, collection |-> t.coll,
                                             user |-> owner, accessLevel |-> ADMIN,
                                             encryptionKey |-> t.encryption_key]}]]
                 /\ seqs' = [seqs EXCEPT !.member = @ + 1]
                 /\ UNCHANGED <<items, revisions, chunks, relations, collections, members, codec, commitOrder>>
    /\ UNCHANGED blobs

\* ---- CollectionSerializer.update ----
\* The serializer is called with a collection of the database and validated
\* data, enters the atomic block, takes the main item of the collection and
\* reads its current revision; from there on it runs the statements of the
\* item update.  What is left of validated_data (uid, version) is not used.
CollectionUpdate(c) ==
    /\ Arrives(c)
    /\ \E k \in collections, rdata \in RevisionData(c), cdata \in CollectionUpdateData :
          tx' = [tx EXCEPT ![c] =
                    Selected(c, [Idle EXCEPT !.op = "cupdate", !.coll = k.id,
                                             !.item = k.mainItem, !.revision_data = rdata,
                                             !.validated_data = cdata,
                                             !.startCur = CommittedCurrent(k.mainItem)],
                             k.mainItem)]
    /\ UNCHANGED <<items, revisions, chunks, relations, collections, members, codec, blobs, seqs, commitOrder>>

\* ---- CollectionSerializer.get_ctag ----
\* CollectionItemRevision.objects.filter(item__collection=obj).last(): the
\* committed revision with the greatest primary key among the items of the
\* collection; its uid, or None when there is no such revision.
get_ctag(obj) ==
    LET of == {r \in revisions : \E i \in items : i.id = r.item /\ i.collection = obj} IN
    IF of = {} THEN Null
    ELSE (CHOOSE r \in of : \A q \in of : q.id <= r.id).uid

\* ---- the codec ----
\* A byte string is a sequence of bytes; the byte strings at the boundary are
\* those of at most MaxBytes bytes of ByteVals.  A text is a sequence of
\* characters: 0..63 are the characters of the URL-safe alphabet
\* (A-Z a-z 0-9 - _) by their value, Pad is '='.
MaxBytes == 4

ByteVals == {0, 77, 251, 255}

Pad == 64

RECURSIVE SeqsUpTo(_, _)
SeqsUpTo(S, n) ==
    IF n = 0 THEN {<<>>}
    ELSE LET shorter == SeqsUpTo(S, n - 1) IN
         shorter \cup {Append(q, x) : q \in {r \in shorter : Len(r) = n - 1}, x \in S}

ByteStrings == SeqsUpTo(ByteVals, MaxBytes)

\* base64.urlsafe_b64encode: three bytes make four characters; one or two
\* bytes left over make two or three characters and '=' up to four.
RECURSIVE urlsafe_b64encode(_)
urlsafe_b64encode(value) ==
    IF Len(value) = 0 THEN <<>>
    ELSE IF Len(value) = 1
      THEN <<value[1] \div 4, (value[1] % 4) * 16, Pad, Pad>>
    ELSE IF Len(value) = 2
      THEN <<value[1] \div 4, (value[1] % 4) * 16 + value[2] \div 16,
             (value[2] % 16) * 4, Pad>>
    ELSE <<value[1] \div 4, (value[1] % 4) * 16 + value[2] \div 16,
           (value[2] % 16) * 4 + value[3] \div 64, value[3] % 64>>
             \o urlsafe_b64encode(SubSeq(value, 4, Len(value)))

\* str.strip(ch): ch is removed from both ends.
RECURSIVE strip(_, _)
strip(text, ch) ==
    IF text = <<>> THEN text
    ELSE IF text[1] = ch THEN strip(Tail(text), ch)
    ELSE IF text[Len(text)] = ch THEN strip(SubSeq(text, 1, Len(text) - 1), ch)
    ELSE text

\* def b64encode(value)
b64encode(value) == strip(urlsafe_b64encode(value), Pad)

\* What a decoder returns: the bytes, or the exception it raises.
Bytes(b) == [err |-> "", bytes |-> b]

Raises(e) == [err |-> e, bytes |-> <<>>]

\* base64.urlsafe_b64decode of a text whose '=' are at its end: four
\* characters make three bytes; a last group with one or two '=' makes two or
\* one bytes, the bits left over are dropped; a text that is not made of
\* whole groups raises binascii.Error.
RECURSIVE urlsafe_b64decode(_)
urlsafe_b64decode(text) ==
    IF Len(text) = 0 THEN Bytes(<<>>)
    ELSE IF Len(text) < 4 \/ text[1] = Pad \/ text[2] = Pad THEN Raises("binascii.Error")
    ELSE IF text[3] = Pad
      THEN IF Len(text) = 4 /\ text[4] = Pad
             THEN Bytes(<<text[1] * 4 + text[2] \div 16>>)
             ELSE Raises("binascii.Error")
    ELSE IF text[4] = Pad
      THEN IF Len(text) = 4
             THEN Bytes(<<text[1] * 4 + text[2] \div 16,
                          (text[2] % 16) * 16 + text[3] \div 4>>)
             ELSE Raises("binascii.Error")
    ELSE LET rest == urlsafe_b64decode(SubSeq(text, 5, Len(text))) IN
         IF rest.err # "" THEN rest
         ELSE Bytes(<<text[1] * 4 + text[2] \div 16,
                      (text[2] % 16) * 16 + text[3] \div 4,
                      (text[3] % 4) * 64 + text[4]>> \o rest.bytes)

\* Variant: the outer % 4 is left out, so a text of whole groups gets four.
PaddingNoWrap(data) == [j \in 1..(4 - (Len(data) % 4)) |-> Pad]

\* "=" * ((4 - len(data) % 4) % 4)
Padding(data) == [j \in 1..((4 - (Len(data) % 4)) % 4) |-> Pad]

\* def b64decode(data)
b64decode(data) == urlsafe_b64decode(data \o Padding(data))

\* ChunksField.to_internal_value: (data[0], b64decode(data[1])).  The index 1
\* of a list of one element raises IndexError.
to_internal_value(data) ==
    IF Len(data) < 2 THEN [err |-> "IndexError", value |-> <<>>]
    ELSE LET content == b64decode(data[2]) IN
         IF content.err # "" THEN [err |-> content.err, value |-> <<>>]
         ELSE [err |-> "", value |-> <<data[1], content.bytes>>]

\* The chunk elements of an inbound payload: [uid], or [uid, text] with the
\* text a client makes of its bytes.
MaxInlineBytes == 2

InboundElems ==
    {<<u>> : u \in ChunkUids}
        \cup {<<u, b64encode(b)>> : u \in ChunkUids, b \in SeqsUpTo(ByteVals, MaxInlineBytes)}

\* A byte string is about to be sent.
CodecBytes(b) == [pc |-> "bytes", value |-> b, text |-> <<>>, decoded |-> Bytes(<<>>)]

\* A chunk element has come in.
CodecElem(e) == [pc |-> "element", data |-> e, out |-> [err |-> "", value |-> <<>>]]

\* BinaryBase64Field.to_representation: the value is encoded.
Encode ==
    /\ codec.pc = "bytes"
    /\ codec' = [codec EXCEPT !.pc = "text", !.text = b64encode(codec.value)]
    /\ UNCHANGED <<items, revisions, chunks, relations, collections, members, blobs, seqs, tx, commitOrder>>

\* BinaryBase64Field.to_internal_value: the text is decoded.
Decode ==
    /\ codec.pc = "text"
    /\ codec' = [codec EXCEPT !.pc = "decoded", !.decoded = b64decode(codec.text)]
    /\ UNCHANGED <<items, revisions, chunks, relations, collections, members, blobs, seqs, tx, commitOrder>>

\* The chunks field converts an element of the payload.
ToInternalValue ==
    /\ codec.pc = "element"
    /\ codec' = [codec EXCEPT !.pc = "validated", !.out = to_internal_value(codec.data)]
    /\ UNCHANGED <<items, revisions, chunks, relations, collections, members, blobs, seqs, tx, commitOrder>>

\* ---- the system ----
Next ==
    \E c \in Calls :
        \/ Create(c)
        \/ Update(c)
        \/ SelectRecheck(c)
        \/ SelectReread(c)
        \/ Demote(c)
        \/ ChunkCreate(c)
        \/ ChunkInsert(c)
        \/ ChunkGet(c)
        \/ CreateRevision(c)
        \/ Commit(c)
        \/ DeadlockAbort(c)

Spec == Init /\ [][Next]_vars

\* The item requests together with the collection requests.
CollectionNext ==
    \/ Next
    \/ \E c \in Calls :
          \/ CollectionCreate(c)
          \/ SaveMember(c)
          \/ CollectionUpdate(c)

CollectionSpec == Init /\ [][CollectionNext]_vars

\* A statement of request c that is not its first, its commit, or its
\* cancellation by the database.
Step(c) ==
    \/ SelectRecheck(c)
    \/ SelectReread(c)
    \/ Demote(c)
    \/ ChunkCreate(c)
    \/ ChunkInsert(c)
    \/ ChunkGet(c)
    \/ CreateRevision(c)
    \/ SaveMember(c)
    \/ Commit(c)
    \/ DeadlockAbort(c)

\* Each request runs on a worker of its own: a request that can take its
\* next step takes it; a request need not arrive.
FairSpec == Spec /\ \A c \in Calls : WF_vars(Step(c))

\* The boundary alone: a byte string to send or a chunk element that has
\* come in, and the conversions applied to it.
CodecInit ==
    /\ items = {}
    /\ revisions = {}
    /\ chunks = {}
    /\ relations = {}
    /\ blobs = <<>>
    /\ seqs = [item |-> 1, rev |-> 1, chunk |-> 1, rel |-> 1, coll |-> 1, member |-> 1]
    /\ tx = [c \in Calls |-> Idle]
    /\ commitOrder = <<>>
    /\ collections = {}
    /\ members = {}
    /\ codec \in {CodecBytes(b) : b \in ByteStrings} \cup {CodecElem(e) : e \in InboundElems}

CodecNext == Encode \/ Decode \/ ToInternalValue

CodecSpec == CodecInit /\ [][CodecNext]_vars

\* ======================= properties =======================

\* The requests that targeted item i and have finished.
DoneOn(i) == {c \in Calls : tx[c].pc = "done" /\ tx[c].item = i}

\* C1: an item whose finished create/update calls all succeeded (and at least
\* one did) has exactly one revision with current = true.
SingleCurrent ==
    \A i \in {r.id : r \in items} :
        (DoneOn(i) # {} /\ \A c \in DoneOn(i) : tx[c].result = "ok")
            => Cardinality(CurrentRevs(i)) = 1

\* An item that was created and then superseded, both with success.
SingleCurrentWitness ==
    \E c \in Calls :
        /\ tx[c].pc = "done" /\ tx[c].op = "update" /\ tx[c].result = "ok"
        /\ \A d \in DoneOn(tx[c].item) : tx[d].result = "ok"
        /\ Cardinality({r \in revisions : r.item = tx[c].item}) >= 2
        /\ Cardinality(CurrentRevs(tx[c].item)) = 1

\* Two finished updates of one item that both arrived while the same revision
\* was current.
RacedPairs ==
    {p \in Calls \X Calls :
        /\ p[1] < p[2]
        /\ \A k \in {1, 2} : tx[p[k]].pc = "done" /\ tx[p[k]].op = "update"
        /\ tx[p[1]].item = tx[p[2]].item
        /\ tx[p[1]].startCur # None
        /\ tx[p[1]].startCur = tx[p[2]].startCur}

\* The request that committed last among those that wrote item i, or None.
LastCommitted(i) ==
    LET on == {n \in 1..Len(commitOrder) : tx[commitOrder[n]].item = i} IN
    IF on = {} THEN None ELSE commitOrder[CHOOSE n \in on : \A m \in on : m <= n]

\* C2: once two updates that raced on the same current revision have both
\* committed or rolled back, the item has exactly one current revision, and
\* when the last commit on the item is one of the two, it is the revision
\* that call built.
RacedSupersedeOneCurrent ==
    \A p \in RacedPairs :
        LET i == tx[p[1]].item IN
        /\ Cardinality(CurrentRevs(i)) = 1
        /\ LastCommitted(i) \in {p[1], p[2]}
              => \A r \in CurrentRevs(i) : r.by = LastCommitted(i) /\ r.id = tx[r.by].rev

\* Both raced updates committed, the second after it waited for the first.
RacedSupersedeWitness ==
    \E p \in RacedPairs :
        /\ tx[p[1]].result = "ok" /\ tx[p[2]].result = "ok"
        /\ tx[p[1]].waited \/ tx[p[2]].waited
        /\ LastCommitted(tx[p[1]].item) \in {p[1], p[2]}

\* C3: an update that waited at the locked read goes on with the current
\* revision as the database holds it after the wait, and does not fail at
\* the read's result.
WaitedSupersedeProceeds ==
    \A c \in Calls :
        tx[c].waited =>
            /\ tx[c].pc = "demote" => tx[c].current_revision = CommittedCurrent(tx[c].item)
            /\ tx[c].pc = "done" => tx[c].result # "AttributeError"

\* C4: while an update of an item that had a current revision is in
\* progress, the committed table shows exactly one current revision of it.
SupersedeAtomic ==
    \A c \in Calls :
        (Running(c) /\ tx[c].op = "update" /\ tx[c].startCur # None)
            => Cardinality(CurrentRevs(tx[c].item)) = 1

\* An update has demoted the old revision and has not yet built the new one.
SupersedeAtomicWitness ==
    \E c \in Calls :
        /\ Running(c) /\ tx[c].op = "update"
        /\ tx[c].pDemoted # {} /\ tx[c].pRevs = {}
        /\ Cardinality(CurrentRevs(tx[c].item)) = 1

\* Request c fails in this step, after it has demoted a revision.
FailsAfterDemotion(c) ==
    /\ tx[c].op = "update" /\ tx[c].pDemoted # {}
    /\ tx'[c].pc = "done" /\ tx'[c].result # "ok"

\* C5: when an update fails after the demotion, the committed tables are as
\* before, the demoted revision is still current, and no row the call wrote
\* is visible.
RollbackOnFailure ==
    [][\A c \in Calls :
          FailsAfterDemotion(c) =>
              /\ UNCHANGED <<items, revisions, chunks, relations>>
              /\ \A id \in tx[c].pDemoted : \E r \in revisions' : r.id = id /\ r.current
              /\ \A r \in revisions' : r.by # c
              /\ \A k \in chunks' : k.by # c
              /\ relations' \cap tx[c].pRels = {}]_vars

\* An update failed in the chunk loop, after the demotion and after it had
\* written a chunk row, and the old revision is current.
RollbackOnFailureWitness ==
    \E c \in Calls :
        /\ tx[c].pc = "done" /\ tx[c].op = "update"
        /\ tx[c].result \in {"DoesNotExist", "IntegrityError"}
        /\ Len(tx[c].chunks) = 2 /\ Len(tx[c].chunks[1]) = 2
        /\ tx[c].startCur # None
        /\ CommittedCurrent(tx[c].item) = tx[c].startCur

\* C6: an update of an item that has no current revision raises at the
\* demotion (AttributeError on None, the code's NoCurrentRevisionError), goes
\* no further, and neither it nor its rollback leaves a revision, a chunk, a
\* chunk reference or a file.
NoCurrentRevisionFails ==
    \A c \in Calls :
        (tx[c].op = "update" /\ tx[c].startCur = None) =>
            /\ tx[c].pc \in {"demote", "done"}
            /\ tx[c].pc = "done" =>
                  tx[c].result = "AttributeError" /\ tx[c].at = "demote" /\ tx[c].rev = None
            /\ tx[c].chunks = <<>>
            /\ tx[c].pRevs = {} /\ tx[c].pChunks = {} /\ tx[c].pRels = {}
            /\ \A r \in revisions : r.by # c /\ r.item # tx[c].item
            /\ \A k \in chunks : k.by # c

\* An update of the item without revisions has failed.
NoCurrentRevisionWitness ==
    \E c \in Calls :
        /\ tx[c].pc = "done" /\ tx[c].op = "update" /\ tx[c].startCur = None
        /\ tx[c].result = "AttributeError"
        /\ CurrentRevs(tx[c].item) = {}

\* The element request c has taken in this step.
Taken(c) == tx'[c].chunks[Len(tx'[c].chunks)]

TakesElem(c) == tx[c].pc = "chunks" /\ Len(tx'[c].chunks) = Len(tx[c].chunks) + 1

\* Chunk row k was created from an element (uid, bytes) of its creator's list,
\* and the file it points to holds bytes b.
CreatedWith(k, b) ==
    \E j \in 1..Len(tx[k.by].chunks) : tx[k.by].chunks[j] = <<k.uid, b>>

\* C7: a reference-only element whose uid exists is resolved to the one chunk
\* row of that uid, whose file still holds the bytes it was created with; the
\* step writes no file and creates no chunk row.
ChunkDedup ==
    [][\A c \in Calls :
          (TakesElem(c) /\ Len(Taken(c)) = 1 /\ tx'[c].pc = "chunks") =>
              /\ blobs' = blobs
              /\ chunks' = chunks
              /\ tx'[c].pChunks = tx[c].pChunks
              /\ seqs'.chunk = seqs.chunk
              /\ \E k \in VisibleChunks(c) :
                    /\ k.uid = Taken(c)[1]
                    /\ tx'[c].chunks_objs = Append(tx[c].chunks_objs, k.id)
                    /\ CreatedWith(k, blobs'[k.chunkFile])]_vars

\* A committed revision references a chunk that an earlier request created
\* with bytes B1, and the chunk still holds B1.
ChunkDedupWitness ==
    \E c \in Calls : \E rel \in relations : \E k \in chunks :
        /\ tx[c].pc = "done" /\ tx[c].result = "ok"
        /\ rel.revision = tx[c].rev /\ rel.chunk = k.id
        /\ k.by # c /\ k.uid = "X"
        /\ <<"X">> \in {tx[c].chunks[j] : j \in 1..Len(tx[c].chunks)}
        /\ blobs[k.chunkFile] = "B1"

\* Request c, in this step, runs the insert of an inline element whose uid
\* already has a committed chunk row.
CreatesExisting(c) ==
    /\ tx'[c] # tx[c]
    /\ TakesElem(c) \/ tx[c].pc = "chunk_insert"
    /\ Len(Taken(c)) > 1
    /\ \E k \in chunks : k.uid = Taken(c)[1]

\* C8: creating a chunk whose uid already exists raises IntegrityError (the
\* code's DuplicateChunkError); the chunk rows and the bytes of every existing
\* chunk are as before, and exactly one chunk has that uid.
ChunkImmutable ==
    [][\A c \in Calls :
          CreatesExisting(c) =>
              /\ tx'[c].pc = "done" /\ tx'[c].result = "IntegrityError"
              /\ chunks' = chunks
              /\ \A k \in chunks : blobs'[k.chunkFile] = blobs[k.chunkFile]
              /\ Cardinality({k \in chunks' : k.uid = Taken(c)[1]}) = 1]_vars

\* X holds B1, and a request that tried to create X with B2 has failed.
ChunkImmutableWitness ==
    \E c \in Calls : \E k \in chunks :
        /\ tx[c].pc = "done" /\ tx[c].result = "IntegrityError"
        /\ tx[c].chunks[Len(tx[c].chunks)] = <<"X", "B2">>
        /\ k.uid = "X" /\ blobs[k.chunkFile] = "B1"
        /\ Cardinality({q \in chunks : q.uid = "X"}) = 1

\* Request c has an inline element of uid u in the part of its list it read.
Creates(c, u) ==
    \E j \in 1..Len(tx[c].chunks) : Len(tx[c].chunks[j]) > 1 /\ tx[c].chunks[j][1] = u

\* C9: of the requests that create a chunk of the same uid at most one
\* commits; the committed table holds at most one chunk per uid, written by
\* a request that committed, with the bytes that request supplied.
ChunkCreatedOnce ==
    /\ \A u \in ChunkUids : Cardinality({k \in chunks : k.uid = u}) <= 1
    /\ \A a, b \in Calls :
          (a # b /\ tx[a].pc = "done" /\ tx[b].pc = "done"
                 /\ tx[a].result = "ok" /\ tx[b].result = "ok")
              => \A u \in ChunkUids : ~(Creates(a, u) /\ Creates(b, u))
    /\ \A k \in chunks :
          /\ tx[k.by].pc = "done" /\ tx[k.by].result = "ok"
          /\ CreatedWith(k, blobs[k.chunkFile])

\* Two requests created X at the same time with different bytes: one
\* committed, the other waited for it and failed; X holds the bytes of the
\* one that committed.
ChunkCreatedOnceWitness ==
    \E a, b \in Calls : \E k \in chunks :
        /\ a # b /\ tx[a].pc = "done" /\ tx[b].pc = "done"
        /\ tx[a].result = "ok"
        /\ tx[b].result = "IntegrityError" /\ tx[b].at = "chunk_insert"
        /\ k.uid = "X" /\ k.by = a
        /\ \E j \in 1..Len(tx[a].chunks) : tx[a].chunks[j] = <<"X", blobs[k.chunkFile]>>
        /\ tx[b].chunks[Len(tx[b].chunks)][1] = "X"
        /\ tx[b].chunks[Len(tx[b].chunks)][2] # blobs[k.chunkFile]

\* C10: a reference-only element whose uid has no chunk row raises
\* DoesNotExist (the code's ChunkNotFoundError): the request ends with that
\* error and no revision of it exists.
ChunkNotFound ==
    [][\A c \in Calls :
          (TakesElem(c) /\ Len(Taken(c)) = 1
                        /\ ~ \E k \in VisibleChunks(c) : k.uid = Taken(c)[1]) =>
              /\ tx'[c].pc = "done" /\ tx'[c].result = "DoesNotExist"
              /\ tx'[c].rev = None
              /\ revisions' = revisions
              /\ \A r \in revisions' : r.by # c]_vars

\* A request has ended with DoesNotExist at a reference-only element.
ChunkNotFoundWitness ==
    \E c \in Calls :
        /\ tx[c].pc = "done" /\ tx[c].result = "DoesNotExist"
        /\ Len(tx[c].chunks[Len(tx[c].chunks)]) = 1
        /\ \A k \in chunks : k.uid # tx[c].chunks[Len(tx[c].chunks)][1]
        /\ \A r \in revisions : r.by # c

\* Request c, a collection create, fails in this step: in the chunk loop or
\* at the revision (step 4), or at the member row (step 5).
BootstrapFails(c) ==
    /\ tx[c].op = "ccreate"
    /\ tx[c].pc \in {"chunks", "chunk_insert", "member"}
    /\ tx'[c].pc = "done" /\ tx'[c].result # "ok"

\* C11: when a collection create fails while it builds the first revision or
\* when it saves the member row of the owner, the committed tables are as
\* before and hold no collection, item, revision, chunk reference or member
\* row of the call.
AtomicBootstrap ==
    [][\A c \in Calls :
          BootstrapFails(c) =>
              /\ UNCHANGED <<collections, items, revisions, chunks, relations, members>>
              /\ \A k \in collections' : k.id # tx[c].coll
              /\ \A i \in items' : i.id # tx[c].item /\ i.collection # tx[c].coll
              /\ \A r \in revisions' : r.by # c /\ r.item # tx[c].item
              /\ relations' \cap tx[c].pRels = {}
              /\ \A m \in members' : m.collection # tx[c].coll]_vars

\* One collection create has failed at a chunk reference that does not
\* resolve, another at the member row, after it had built its revision; no
\* collection row of either is there.
AtomicBootstrapWitness ==
    \E a, b \in Calls :
        /\ tx[a].pc = "done" /\ tx[a].op = "ccreate"
        /\ tx[a].result = "DoesNotExist" /\ tx[a].at = "chunks"
        /\ tx[b].pc = "done" /\ tx[b].op = "ccreate"
        /\ tx[b].result = "IntegrityError" /\ tx[b].at = "member"
        /\ \A k \in collections : k.id \notin {tx[a].coll, tx[b].coll}
        /\ \A i \in items : i.id \notin {tx[a].item, tx[b].item}

\* The request that created collection k.
Creator(k) == CHOOSE c \in Calls : tx[c].op = "ccreate" /\ tx[c].coll = k.id

\* C12: every committed collection has a main item with uid None,
\* encryptionKey None and the version of the collection; the main item has
\* exactly one current revision; and the collection has a member with
\* accessLevel ADMIN, the owner its creator passed, with the key its creator
\* sent.
CollectionComplete ==
    \A k \in collections :
        /\ \E i \in items :
              /\ i.id = k.mainItem /\ i.collection = k.id
              /\ i.uid = Null /\ i.encryptionKey = Null
              /\ i.version = k.version /\ k.version = tx[Creator(k)].validated_data.version
        /\ Cardinality(CurrentRevs(k.mainItem)) = 1
        /\ \E m \in members :
              /\ m.collection = k.id /\ m.accessLevel = ADMIN
              /\ m.user # Null /\ m.user = tx[Creator(k)].owner
              /\ m.encryptionKey = tx[Creator(k)].encryption_key

\* A collection has been created, and its content has been updated once by
\* a collection update.
CollectionCompleteWitness ==
    \E k \in collections : \E c \in Calls :
        /\ tx[c].pc = "done" /\ tx[c].op = "cupdate" /\ tx[c].result = "ok"
        /\ tx[c].coll = k.id
        /\ Cardinality({r \in revisions : r.item = k.mainItem}) = 2
        /\ Cardinality(CurrentRevs(k.mainItem)) = 1
        /\ \E m \in members : m.collection = k.id /\ m.accessLevel = ADMIN

\* C13 (as claimed): the boundary turns an element [uid] into the reference
\* (uid,) and an element [uid, text] into (uid, bytes), the bytes the text
\* was made of; it rejects neither.
InboundChunkForms ==
    codec.pc = "validated" =>
        /\ codec.out.err = ""
        /\ Len(codec.data) = 1 => codec.out.value = <<codec.data[1]>>
        /\ Len(codec.data) = 2 =>
              /\ Len(codec.out.value) = 2
              /\ codec.out.value[1] = codec.data[1]
              /\ b64encode(codec.out.value[2]) = codec.data[2]

\* C14: a byte string encoded and decoded again is the same byte string; the
\* encoded text has no '='; the '=' the decoder adds, to an encoded text, to
\* the text of an inbound element and to a text of any length up to twice
\* MaxBytes, are at most 3 and make the length a multiple of 4.
CodecRoundTrip ==
    /\ codec.pc \in {"text", "decoded"} =>
          /\ codec.text = b64encode(codec.value)
          /\ \A j \in 1..Len(codec.text) : codec.text[j] # Pad
          /\ Len(Padding(codec.text)) <= 3
          /\ Len(codec.text \o Padding(codec.text)) % 4 = 0
    /\ codec.pc = "decoded" => codec.decoded = Bytes(codec.value)
    /\ codec.pc \in {"element", "validated"} /\ Len(codec.data) = 2 =>
          /\ Len(Padding(codec.data[2])) <= 3
          /\ Len(codec.data[2] \o Padding(codec.data[2])) % 4 = 0
    /\ \A t \in SeqsUpTo({0}, 2 * MaxBytes) :
          /\ Len(Padding(t)) <= 3
          /\ Len(t \o Padding(t)) % 4 = 0

\* A byte string of 4 bytes (one byte over a group of three), with the
\* characters '-' and '_' in its text, has come back from the round trip.
CodecRoundTripWitness ==
    /\ codec.pc = "decoded"
    /\ Len(codec.value) = 4
    /\ Len(codec.text) = 6
    /\ \E j, k \in 1..Len(codec.text) : codec.text[j] = 62 /\ codec.text[k] = 63
    /\ codec.decoded.bytes = codec.value

\* Request c leaves its atomic block with success in this step.
Commits(c) == tx[c].pc = "commit" /\ tx'[c].pc = "done" /\ tx'[c].result = "ok"

\* C15: when a create or an update commits, the revision the call built is
\* the one current revision of its item, though the builder gave it no flag;
\* and the revision an update found current and demoted is no longer current.
NewRevisionCurrent ==
    [][\A c \in Calls :
          Commits(c) =>
              /\ "current" \notin DOMAIN tx[c].revision_data
              /\ \E r \in revisions' :
                    /\ r.id = tx[c].rev /\ r.by = c /\ r.item = tx[c].item
                    /\ r.current
                    /\ \A q \in revisions' : (q.item = r.item /\ q.current) => q = r
              /\ tx[c].op \in {"update", "cupdate"} =>
                    /\ tx[c].current_revision # None
                    /\ \E q \in revisions : q.id = tx[c].current_revision /\ q.current
                    /\ \E q \in revisions' : q.id = tx[c].current_revision /\ ~q.current]_vars

\* An item was created and then updated: the revision of the update is
\* current, the revision of the create, current when the update began, is
\* not.
NewRevisionCurrentWitness ==
    \E a, b \in Calls :
        /\ tx[a].pc = "done" /\ tx[a].op = "create" /\ tx[a].result = "ok"
        /\ tx[b].pc = "done" /\ tx[b].op = "update" /\ tx[b].result = "ok"
        /\ tx[b].item = tx[a].item /\ tx[b].startCur = tx[a].rev
        /\ Row(tx[b].rev).current
        /\ ~Row(tx[a].rev).current

\* The committed relation rows of revision rid.
RelationsOf(rid) == {rel \in relations : rel.revision = rid}

\* The uid of the chunk of the j-th relation row of revision rid, in the
\* order the rows were created (by primary key).
NthChunkUid(rid, j) ==
    LET rel == CHOOSE q \in RelationsOf(rid) :
                  Cardinality({p \in RelationsOf(rid) : p.id < q.id}) = j - 1
    IN (CHOOSE k \in chunks : k.id = rel.chunk).uid

\* C16: the relation rows of a committed revision, in the order of their
\* creation, are as many as the elements of the chunk list of the call that
\* built it and name the uids of the list in its order.
ChunkOrderPreserved ==
    \A c \in Calls :
        (tx[c].pc = "done" /\ tx[c].result = "ok") =>
            /\ Cardinality(RelationsOf(tx[c].rev)) = Len(tx[c].chunks)
            /\ \A j \in 1..Len(tx[c].chunks) :
                  NthChunkUid(tx[c].rev, j) = tx[c].chunks[j][1]

\* One revision was built from X with bytes and then X again by
\* reference, another from Y with bytes and then X by reference.
ChunkOrderPreservedWitness ==
    \E a, b \in Calls :
        /\ tx[a].pc = "done" /\ tx[a].result = "ok"
        /\ tx[a].chunks = <<(<<"X", "B1">>), (<<"X">>)>>
        /\ tx[b].pc = "done" /\ tx[b].result = "ok"
        /\ tx[b].chunks = <<(<<"Y", "B1">>), (<<"X">>)>>
        /\ Cardinality(RelationsOf(tx[a].rev)) = 2
        /\ NthChunkUid(tx[b].rev, 1) = "Y" /\ NthChunkUid(tx[b].rev, 2) = "X"

\* Request c, an update of an item or of a collection, takes this step.
UpdateStep(c) == tx[c].op \in {"update", "cupdate"} /\ tx'[c] # tx[c]

\* Revision q is revision r with nothing changed but, at most, its flag.
SameButFlag(r, q) == q = [r EXCEPT !.current = q.current]

\* C17: a step of an update of item I leaves every existing revision in
\* place with its uid, meta, deleted flag and item; it leaves the relation
\* rows of existing revisions, the chunk rows and the bytes of existing
\* chunks as they are; the only flag it changes, or has pending, is that of
\* the revision of I it read as current, which it clears.
HistoryKept ==
    [][\A c \in Calls :
          UpdateStep(c) =>
              /\ \A r \in revisions : \E q \in revisions' :
                    /\ q.id = r.id /\ SameButFlag(r, q)
                    /\ q.current # r.current =>
                          /\ r.item = tx[c].item /\ r.id = tx[c].current_revision
                          /\ r.current /\ ~q.current
              /\ \A r \in revisions : \A q \in revisions' \ revisions :
                    q.id = r.id => SameButFlag(r, q)
              /\ tx'[c].pDemoted \subseteq
                    {r.id : r \in {q \in revisions : q.item = tx[c].item /\ q.current}}
              /\ \A rel \in relations' :
                    (\E r \in revisions : r.id = rel.revision) => rel \in relations
              /\ relations \subseteq relations'
              /\ chunks \subseteq chunks'
              /\ \A k \in chunks : blobs'[k.chunkFile] = blobs[k.chunkFile]]_vars

\* Two items have a current revision each, with chunks; an update of one of
\* them has committed: its old revision is there, not current, with its
\* relation row, and the revision of the other item is current.
HistoryKeptWitness ==
    \E c \in Calls : \E old, other \in revisions :
        /\ tx[c].pc = "done" /\ tx[c].op = "update" /\ tx[c].result = "ok"
        /\ old.id = tx[c].startCur /\ ~old.current
        /\ RelationsOf(old.id) # {}
        /\ other.item # tx[c].item /\ other.current
        /\ Row(tx[c].rev).current

\* The collection of the item request c writes, None when it has none.
CollectionOf(c) ==
    (CHOOSE i \in items \cup tx[c].pItems : i.id = tx[c].item).collection

\* C18 (as claimed): get_ctag is the uid of the committed revision created
\* last among the items of the collection, None only when there is none, and
\* when a create or an update of an item of the collection commits, the ctag
\* of the collection is the uid of the revision that call created.
CtagTracksLatestWrite ==
    [][\A c \in Calls :
          (Commits(c) /\ CollectionOf(c) # None) =>
              /\ get_ctag(CollectionOf(c))' # Null
              /\ get_ctag(CollectionOf(c))' = tx[c].revision_data.uid]_vars

\* Request c, an update of an item or of a collection, arrives or takes a
\* later step.
UpdateActs(c) == tx'[c].op \in {"update", "cupdate"} /\ tx'[c] # tx[c]

\* C19: no step of an update, its commit included, changes or has pending a
\* change of an item row, a collection row or a member row, and the payload
\* of the update carries a uid and a version that differ from the stored ones.
UpdateFrame ==
    [][\A c \in Calls :
          UpdateActs(c) =>
              /\ items' = items /\ collections' = collections /\ members' = members
              /\ tx'[c].pItems = {} /\ tx'[c].pColls = {} /\ tx'[c].pMembers = {}
              /\ \A i \in items :
                    i.id = tx'[c].item /\ tx'[c].op = "update" =>
                        /\ i.uid # tx'[c].validated_data.uid
                        /\ i.version # tx'[c].validated_data.version
                        /\ i.encryptionKey # tx'[c].validated_data.encryptionKey
              /\ \A k \in collections :
                    k.id = tx'[c].coll /\ tx'[c].op = "cupdate" =>
                        /\ k.uid # tx'[c].validated_data.uid
                        /\ k.version # tx'[c].validated_data.version]_vars

\* An item update and a collection update have committed; the item and the
\* collection have the uid and version they were created with, not those of
\* the payloads, and the collection has its main item and its member.  (The
\* item is the main item of the collection: uid None.)
UpdateFrameWitness ==
    \E a, b \in Calls : \E i \in items : \E k \in collections :
        /\ tx[a].pc = "done" /\ tx[a].op = "update" /\ tx[a].result = "ok"
        /\ i.id = tx[a].item /\ i.uid = Null /\ i.version \in {d.version : d \in CollectionData}
        /\ i.uid # tx[a].validated_data.uid /\ i.version # tx[a].validated_data.version
        /\ tx[b].pc = "done" /\ tx[b].op = "cupdate" /\ tx[b].result = "ok"
        /\ k.id = tx[b].coll /\ k.uid \in {d.uid : d \in CollectionData}
        /\ k.uid # tx[b].validated_data.uid
        /\ k.mainItem = tx[b].item
        /\ \E m \in members : m.collection = k.id

====
